---- MODULE Spec2Model ----
(***************************************************************************)
(* State-machine model of the grid strategy engine of src/bot/strategy.py  *)
(* (class GridStrategy, class EWMA) and of the adapter contract of         *)
(* src/exchanges/base.py that it consumes.                                 *)
(*                                                                         *)
(* Conventions                                                             *)
(*  - Python floats are modelled as exact rationals <<n, d>> (d > 0,       *)
(*    lowest terms).  Prices are quoted in tenths of a currency unit, so   *)
(*    100.0 is <<1000, 1>>.                                                *)
(*  - time.time() is the variable clock (whole seconds).  It never runs    *)
(*    backwards; it advances inside blocking calls (adapter calls, sleeps).*)
(*  - pc is the position of run_forever inside one tick.  A step that ends *)
(*    in an adapter call is cut at that call: the call's result (or its    *)
(*    exception) is the input of the next action.                          *)
(***************************************************************************)
EXTENDS Integers, Sequences, FiniteSets, TLC

VARIABLES
    pc,              \* position of run_forever in the tick
    clock,           \* time.time()
    band,            \* self.band (StrategyBand), fixed for the run
    quote,           \* local `quote` of run_forever
    price,           \* self.price
    base_price,      \* self.base_price
    volatility,      \* self.volatility
    tp_ratio,        \* self.tp_ratio
    sl_ratio,        \* self.sl_ratio
    ewma_prev,       \* self.vol_estimator.prev
    ewma_var,        \* self.vol_estimator.var, in units of 1 / VarScale
    positions,       \* self.state.positions
    realized_pnl,    \* self.state.realized_pnl
    wins,            \* self.state.wins
    losses,          \* self.state.losses
    trades,          \* self.state.trades
    last_trade_pnl,  \* self.state.last_trade_pnl
    order_times,     \* self.order_times
    last_order_ts,   \* self.last_order_ts
    pending_orders,  \* self.pending_orders
    req,             \* the adapter call in flight (its arguments and locals)
    todo,            \* rest of the list a for-loop iterates over
    next_id,         \* venue side: number of the next order the venue accepts
    status,          \* status of the last snapshot handed to publisher.publish
    last_event,      \* event of the last logger.log_trade record of this tick
    reported_open,   \* ids list_open_orders reported in this tick
    marks,           \* history: the timestamp of every _mark_order call
    cancel_refused,  \* history: ids for which cancel_order has returned False
    ticks            \* history: iterations of `while True` begun so far

vars == <<pc, clock, band, quote, price, base_price, volatility, tp_ratio,
          sl_ratio, ewma_prev, ewma_var, positions, realized_pnl, wins, losses, trades,
          last_trade_pnl, order_times, last_order_ts, pending_orders, req,
          todo, next_id, status, last_event, reported_open, marks, cancel_refused,
          ticks>>

(***************************************************************************)
(* Exact rational arithmetic standing for float arithmetic.                *)
(***************************************************************************)
Abs(x) == IF x < 0 THEN -x ELSE x

RECURSIVE GCD(_, _)
GCD(a, b) == IF b = 0 THEN a ELSE GCD(b, a % b)

R(n, d) ==
    LET s == IF d < 0 THEN -1 ELSE 1
        g == GCD(Abs(n), Abs(d))
    IN  IF n = 0 THEN <<0, 1>> ELSE <<(s * n) \div g, (s * d) \div g>>

I(n) == <<n, 1>>

RAdd(a, b) ==
    LET g == GCD(a[2], b[2])
    IN  R(a[1] * (b[2] \div g) + b[1] * (a[2] \div g), (a[2] \div g) * b[2])

RNeg(a) == <<-a[1], a[2]>>
RSub(a, b) == RAdd(a, RNeg(b))
RMul(a, b) ==
    LET g1 == GCD(Abs(a[1]), b[2])
        g2 == GCD(Abs(b[1]), a[2])
        h1 == IF g1 = 0 THEN 1 ELSE g1
        h2 == IF g2 = 0 THEN 1 ELSE g2
    IN  R((a[1] \div h1) * (b[1] \div h2), (a[2] \div h2) * (b[2] \div h1))
RDiv(a, b) == IF b[1] < 0 THEN RMul(a, <<-b[2], -b[1]>>) ELSE RMul(a, <<b[2], b[1]>>)
RLt(a, b) == a[1] * b[2] < b[1] * a[2]
RLe(a, b) == a[1] * b[2] <= b[1] * a[2]
RMax(a, b) == IF RLt(a, b) THEN b ELSE a
RMin(a, b) == IF RLt(b, a) THEN b ELSE a

RECURSIVE RPow(_, _)
RPow(a, k) == IF k = 0 THEN I(1) ELSE RMul(a, RPow(a, k - 1))

(***************************************************************************)
(* Program constants.                                                      *)
(***************************************************************************)
WindowSeconds == 60          \* the sliding window of _can_place_order
OrderTimesMaxLen == 100      \* deque(maxlen=100)
ErrorPauseSeconds == 5       \* time.sleep(5) of the except branch
Ln2Permille == 693           \* math.log(2), in thousandths

(***************************************************************************)
(* Bounds of the model.                                                    *)
(***************************************************************************)
ClockStart == 100            \* time.time() when run_forever is entered
MaxTicks == 2                \* iterations of `while True` that are explored
MaxOrders == 3               \* orders the venue accepts during a run
MaxOpenReported == 1         \* longest list list_open_orders returns
BurstTicks == 51             \* iterations explored with the fast band
RoundTicks == 3              \* iterations explored with the twin band
MaxCalls == 8                \* calls of EWMA.update explored on one estimator
IdTicks == 2                 \* iterations explored with generated order ids
QtyTicks == 2                \* iterations explored with non-positive quantities
CancelTicks == 3             \* iterations explored with refused cancellations
SharedTicks == 3             \* iterations explored with several exits in one tick
AnchorTicks == 3             \* iterations explored with an entry and a full exit
ExitTicks == 7               \* iterations explored with exits due on every tick
ExitWithin == 5              \* iterations a due exit is given before the run ends
UnknownTicks == 3            \* iterations explored with orders the engine does not know

(***************************************************************************)
(* Strategy bands (bot/config.py, StrategyBand).  Fractions are rationals, *)
(* money is in tenths, times are seconds.                                  *)
(***************************************************************************)
BandGrid ==
    [buy_step |-> <<1, 100>>, martingale_multiplier |-> I(2), max_steps |-> 2,
     base_order_value |-> I(100),
     tp_multiplier |-> I(2), sl_multiplier |-> I(1),
     tp_floor |-> <<2, 100>>, sl_floor |-> <<2, 100>>,
     vol_halflife |-> 30, vol_min |-> <<1, 1000>>, vol_max |-> <<15, 1000>>,
     sleep_seconds |-> 19, order_cooldown |-> 6, max_orders_per_minute |-> 2,
     cancel_base_wait |-> I(10), cancel_min_wait |-> I(5),
     cancel_max_wait |-> I(30), cancel_volume_scale |-> I(2000)]

\* A band with no ladder at all (max_steps = 0) and one with a single rung and
\* no cooldown.
BandFlat == [BandGrid EXCEPT !.max_steps = 0]
BandFast ==
    [BandGrid EXCEPT !.max_steps = 1, !.order_cooldown = 0,
                     !.tp_floor = I(0), !.tp_multiplier = I(0)]

\* A band whose per-minute cap is above the deque's capacity.
BandBurst ==
    [BandFast EXCEPT !.max_orders_per_minute = OrderTimesMaxLen + 1,
                     !.sleep_seconds = 1]

(***************************************************************************)
(* Environments: what the adapter, the venue and the clock may do.         *)
(***************************************************************************)
EnvFull ==
    [bands |-> {BandGrid, BandFlat, BandFast},
     start_prices |-> {1000},
     prices |-> {965, 989, 995, 1021},
     volumes |-> {2000, 4000},
     server_time |-> {TRUE, FALSE},
     sigmas |-> {<<0, 1>>},
     place |-> {"ok", "reject", "raise"},
     cancel |-> {"true", "false", "raise"},
     may_raise |-> TRUE,
     latency |-> {0, 2},
     elapse |-> {0, 42},
     foreign |-> {<<"ext", 0>>},
     uuids |-> {0},
     max_open |-> MaxOpenReported,
     max_orders |-> MaxOrders,
     max_ticks |-> MaxTicks]

\* A band whose rungs coincide (buy_step = 0) and carry equal value
\* (martingale_multiplier = 1): two buys at one price give equal positions.
BandTwin ==
    [BandGrid EXCEPT !.buy_step = I(0), !.martingale_multiplier = I(1),
                     !.order_cooldown = 0, !.max_orders_per_minute = 6]

\* A venue that accepts or rejects at once, lists nothing open and never
\* raises; quotes at the anchor, 2% above it and 2% below it.
EnvRound ==
    [bands |-> {BandTwin},
     start_prices |-> {1000},
     prices |-> {980, 1000, 1020},
     volumes |-> {2000},
     server_time |-> {TRUE},
     sigmas |-> {<<0, 1>>},
     place |-> {"ok", "reject"},
     cancel |-> {},
     may_raise |-> FALSE,
     latency |-> {0},
     elapse |-> {0},
     foreign |-> {},
     uuids |-> {0},
     max_open |-> 0,
     max_orders |-> 2 * RoundTicks,
     max_ticks |-> RoundTicks]

\* The adapter may accept an order without returning an id for it; uuid4 has
\* two outcomes.
EnvIds ==
    [bands |-> {BandFast},
     start_prices |-> {1000},
     prices |-> {989, 1021},
     volumes |-> {2000},
     server_time |-> {TRUE},
     sigmas |-> {<<0, 1>>},
     place |-> {"ok", "ok_noid", "reject"},
     cancel |-> {},
     may_raise |-> FALSE,
     latency |-> {0},
     elapse |-> {0},
     foreign |-> {},
     uuids |-> {1, 2},
     max_open |-> 0,
     max_orders |-> 2 * IdTicks,
     max_ticks |-> IdTicks]

\* A band whose order value is negative, and a feed that also quotes zero and
\* a negative price: the computed buy quantity is then zero or negative.
BandNegValue == [BandFast EXCEPT !.base_order_value = I(-100)]

EnvQty ==
    [bands |-> {BandFast, BandNegValue},
     start_prices |-> {1000},
     prices |-> {-10, 0, 989, 1021},
     volumes |-> {2000},
     server_time |-> {TRUE},
     sigmas |-> {<<0, 1>>},
     place |-> {"ok", "reject"},
     cancel |-> {},
     may_raise |-> FALSE,
     latency |-> {0},
     elapse |-> {0},
     foreign |-> {},
     uuids |-> {0},
     max_open |-> 0,
     max_orders |-> 2 * QtyTicks,
     max_ticks |-> QtyTicks]

\* A band with a short sleep, and a venue whose 24h volume moves between 1000
\* and 4000 (wait 5 and wait 20) and whose cancel_order may return False.
BandQuick == [BandFast EXCEPT !.sleep_seconds = 6]

EnvCancel ==
    [bands |-> {BandQuick},
     start_prices |-> {1000},
     prices |-> {989},
     volumes |-> {1000, 4000},
     server_time |-> {TRUE},
     sigmas |-> {<<0, 1>>},
     place |-> {"ok"},
     cancel |-> {"true", "false"},
     may_raise |-> FALSE,
     latency |-> {0},
     elapse |-> {0},
     foreign |-> {},
     uuids |-> {0},
     max_open |-> 1,
     max_orders |-> 2,
     max_ticks |-> CancelTicks]

\* A band whose cancellation wait is 0 (cancel_min_wait = cancel_max_wait = 0),
\* and a venue that reports up to two open orders: orders it accepted, with or
\* without returning an id, and one order that this engine never placed.
BandNoWait == [BandQuick EXCEPT !.cancel_min_wait = I(0), !.cancel_max_wait = I(0)]

EnvUnknown ==
    [bands |-> {BandQuick, BandNoWait},
     start_prices |-> {1000},
     prices |-> {989},
     volumes |-> {1000},
     server_time |-> {TRUE},
     sigmas |-> {<<0, 1>>},
     place |-> {"ok", "ok_noid"},
     cancel |-> {"true"},
     may_raise |-> FALSE,
     latency |-> {0},
     elapse |-> {0},
     foreign |-> {<<"ext", 0>>},
     uuids |-> {0},
     max_open |-> 2,
     max_orders |-> 2,
     max_ticks |-> UnknownTicks]

\* Twin bands with a cooldown of 0, 2 and 6 seconds, and a venue whose
\* place_order takes 0 or 2 seconds.
BandTwinCool2 == [BandTwin EXCEPT !.order_cooldown = 2]
BandTwinCool6 == [BandTwin EXCEPT !.order_cooldown = 6]

EnvShared ==
    [bands |-> {BandTwin, BandTwinCool2, BandTwinCool6},
     start_prices |-> {1000},
     prices |-> {980, 1000, 1021},
     volumes |-> {2000},
     server_time |-> {TRUE},
     sigmas |-> {<<0, 1>>},
     place |-> {"ok", "reject"},
     cancel |-> {},
     may_raise |-> FALSE,
     latency |-> {0, 2},
     elapse |-> {0},
     foreign |-> {},
     uuids |-> {0},
     max_open |-> 0,
     max_orders |-> 2 * SharedTicks,
     max_ticks |-> SharedTicks]

\* Three ticks without failures: room for an entry, a full exit at a higher
\* price and a quote between the two; BandRoomy's cap of 6 orders per minute
\* is never reached in them.
BandRoomy == [BandGrid EXCEPT !.max_orders_per_minute = 6]

EnvAnchor ==
    [bands |-> {BandRoomy, BandFast},
     start_prices |-> {1000},
     prices |-> {965, 989, 995, 1021},
     volumes |-> {2000},
     server_time |-> {TRUE},
     sigmas |-> {<<0, 1>>},
     place |-> {"ok", "reject"},
     cancel |-> {},
     may_raise |-> FALSE,
     latency |-> {0},
     elapse |-> {0},
     foreign |-> {},
     uuids |-> {0},
     max_open |-> 0,
     max_orders |-> 2 * AnchorTicks,
     max_ticks |-> AnchorTicks]

\* A band whose take profit is due at any gain of 0 or more (stop loss at 2%),
\* on a feed of 96.5 and 98.9: every position is due for an exit on every
\* tick, and both prices are buy signals while the ladder has room.
BandExit == [BandRoomy EXCEPT !.tp_floor = I(0), !.tp_multiplier = I(0)]

EnvExit ==
    [bands |-> {BandExit},
     start_prices |-> {1000},
     prices |-> {965, 989},
     volumes |-> {2000},
     server_time |-> {TRUE},
     sigmas |-> {<<0, 1>>},
     place |-> {"ok"},
     cancel |-> {},
     may_raise |-> FALSE,
     latency |-> {0},
     elapse |-> {0},
     foreign |-> {},
     uuids |-> {0},
     max_open |-> 0,
     max_orders |-> 2 * ExitTicks,
     max_ticks |-> ExitTicks]

\* Bands for the estimator alone: half-lives 1 and 30, a floor below the
\* ceiling and a floor equal to it.
BandHalf1 == [BandGrid EXCEPT !.vol_halflife = 1]
BandPinned == [BandGrid EXCEPT !.vol_min = <<2, 1000>>, !.vol_max = <<2, 1000>>]

\* Prices fed to EWMA.update: negative, zero, repeated, a 1% move, a 30% move.
EnvEWMA ==
    [bands |-> {BandGrid, BandHalf1, BandPinned},
     prices |-> {-10, 0, 1000, 1010, 1300},
     max_calls |-> MaxCalls]

\* A quiet venue and a fast loop: every order is accepted at once, nothing
\* raises, one tick takes band.sleep_seconds.
EnvBurst ==
    [bands |-> {BandBurst},
     start_prices |-> {1000},
     prices |-> {989},
     volumes |-> {2000},
     server_time |-> {TRUE},
     sigmas |-> {<<0, 1>>},
     place |-> {"ok"},
     cancel |-> {},
     may_raise |-> FALSE,
     latency |-> {0},
     elapse |-> {0},
     foreign |-> {},
     uuids |-> {0},
     max_open |-> 0,
     max_orders |-> 2 * BurstTicks,
     max_ticks |-> BurstTicks]

(***************************************************************************)
(* Adapter helpers: the defaults of class Exchange (exchanges/base.py).    *)
(***************************************************************************)
RoundPrice(p) == p
RoundQuantity(q) == q
ValueToQuantity(order_value, p) ==
    IF RLe(p, I(0)) THEN I(0) ELSE RDiv(order_value, p)
NotionalValue(p, q) == RMul(p, q)
MinNotional == I(0)
\* is_notional_sufficient without the test quantity > 0
IsNotionalSufficientAnyQuantity(notional, quantity) ==
    LET epsilon == RMax(<<1, 1000000>>, RMul(MinNotional, <<1, 1000000>>))
    IN  RLe(MinNotional, RAdd(notional, epsilon))

IsNotionalSufficient(notional, quantity) ==
    LET epsilon == RMax(<<1, 1000000>>, RMul(MinNotional, <<1, 1000000>>))
    IN  RLt(I(0), quantity) /\ RLe(MinNotional, RAdd(notional, epsilon))

(***************************************************************************)
(* EWMA.  std() clamps sqrt(max(0, var)) into [floor, ceil]; sigma stands  *)
(* for that square root, which the engine's specification takes as an      *)
(* input of each update instead of carrying var.                           *)
(***************************************************************************)
\* std() without the ceiling
EWMAStdNoCeil(b, sigma) == RMax(b.vol_min, sigma)

EWMAStd(b, sigma) == RMax(b.vol_min, RMin(b.vol_max, sigma))
EWMASeed(b) == RMax(b.vol_min, <<1, 1000000>>)

\* The estimator's numbers are held at a finite resolution, as a float is: a
\* standard deviation or a log return in units of 1 / StdScale, a variance in
\* units of 1 / VarScale, each result rounded to the nearest unit.
StdScale == 100 * 100
VarScale == StdScale * StdScale

\* A rational as a whole number of units of 1 / scale (rounded down).
ToUnits(r, scale) == (r[1] * scale) \div r[2]

\* self.var = max(floor, 1e-6) ** 2
EWMAInitVar(b) == ToUnits(RMul(EWMASeed(b), EWMASeed(b)), VarScale)

\* self.prev = None
NoPrev == <<0, 0>>

\* self.alpha = math.log(2) / max(1, halflife), in thousandths
EWMAAlpha(b) == Ln2Permille \div (IF b.vol_halflife > 1 THEN b.vol_halflife ELSE 1)

\* a / 1000 * x, rounded to the nearest unit
MulPermille(a, x) == a * (x \div 1000) + (a * (x % 1000) + 500) \div 1000

\* math.log(price / prev) in units of 1 / StdScale, by the series
\* 2z + 2z^3/3 with z = (x - 1) / (x + 1); its error is about one unit for
\* every |log x| up to the 0.2 the result is clamped to.
LogReturn(p, prev) ==
    LET x == RDiv(p, prev)
        zfine == ((x[1] - x[2]) * 100 * StdScale) \div (x[1] + x[2])
        z == zfine \div 100
        z3 == (((z * z) \div StdScale) * z) \div StdScale
    IN  (2 * zfine + 50) \div 100 + (2 * z3) \div 3

\* change = max(-0.2, min(0.2, change))
ClampChange(c) ==
    LET lim == StdScale \div 5
    IN  IF c > lim THEN lim ELSE IF c < -lim THEN -lim ELSE c

\* The update with the old variance weighted by 1 + alpha
EWMAVarAfterGrows(b, var, change) ==
    MulPermille(EWMAAlpha(b), change * change) + MulPermille(1000 + EWMAAlpha(b), var)

\* self.var = self.alpha * (change * change) + (1 - self.alpha) * self.var
EWMAVarAfter(b, var, change) ==
    MulPermille(EWMAAlpha(b), change * change) + MulPermille(1000 - EWMAAlpha(b), var)

\* EWMA.update(price): prev and var after the call
EWMAUpdated(b, prev, var, p) ==
    IF prev = NoPrev \/ RLe(p, I(0))
    THEN [prev |-> p, var |-> var]
    ELSE [prev |-> p,
          var |-> EWMAVarAfter(b, var,
                     ClampChange(IF RLt(I(0), prev) THEN LogReturn(p, prev) ELSE 0))]

\* The largest k in lo..hi with k * k <= n (lo * lo <= n is given).
RECURSIVE ISqrtIn(_, _, _)
ISqrtIn(n, lo, hi) ==
    IF lo >= hi THEN lo
    ELSE LET mid == (lo + hi + 1) \div 2
         IN  IF mid * mid <= n THEN ISqrtIn(n, mid, hi) ELSE ISqrtIn(n, lo, mid - 1)

\* math.sqrt(max(0.0, self.var)) as a rational
EWMASigma(var) == R(ISqrtIn(IF var > 0 THEN var ELSE 0, 0, 4 * StdScale), StdScale)

(***************************************************************************)
(* GridStrategy: pure parts.                                               *)
(***************************************************************************)
ComputeTargets(b, v) ==
    [tp |-> RMax(b.tp_floor, RMul(v, b.tp_multiplier)),
     sl |-> RMax(b.sl_floor, RMul(v, b.sl_multiplier))]

RECURSIVE SumQty(_)
SumQty(ps) == IF ps = <<>> THEN I(0) ELSE RAdd(Head(ps).quantity, SumQty(Tail(ps)))

RECURSIVE SumCost(_)
SumCost(ps) ==
    IF ps = <<>> THEN I(0)
    ELSE RAdd(RMul(Head(ps).price, Head(ps).quantity), SumCost(Tail(ps)))

\* sum(p.price * p.quantity) / max(total_qty, 1e-12).  Every positive
\* quantity of the model is above 1e-12, so the max matters only for a total
\* of 0, where the cost is 0 as well.
AvgPrice(ps) ==
    IF RLt(I(0), SumQty(ps)) THEN RDiv(SumCost(ps), SumQty(ps)) ELSE I(0)

\* The anchoring with max in place of min
AnchoredBaseMax(base, ps) ==
    IF ps = <<>> THEN base
    ELSE IF RLe(base, I(0)) THEN AvgPrice(ps)
    ELSE RMax(base, AvgPrice(ps))

\* base_price left where it was, whatever is held
AnchoredBaseKept(base, ps) == base

\* base_price as _handle_quote leaves it
AnchoredBase(base, ps) ==
    IF ps = <<>> THEN base
    ELSE IF RLe(base, I(0)) THEN AvgPrice(ps)
    ELSE RMin(base, AvgPrice(ps))

\* The pruning with `if` in place of `while`: at most one entry is dropped.
PrunedOnce(q, now) ==
    IF q # <<>> /\ now - Head(q) > WindowSeconds THEN Tail(q) ELSE q

RECURSIVE Pruned(_, _)
Pruned(q, now) ==
    IF q # <<>> /\ now - Head(q) > WindowSeconds THEN Pruned(Tail(q), now) ELSE q

\* order_times after _can_place_order() ran at time now
OrderTimesAfterCheck(b, q, last, now) ==
    IF now - last < b.order_cooldown THEN q ELSE Pruned(q, now)

\* _can_place_order() without the cooldown test
CanPlaceOrderNoCooldown(b, q, last, now) ==
    Len(Pruned(q, now)) < b.max_orders_per_minute

\* the value _can_place_order() returns at time now
CanPlaceOrder(b, q, last, now) ==
    IF now - last < b.order_cooldown THEN FALSE
    ELSE Len(Pruned(q, now)) < b.max_orders_per_minute

\* order_times after _mark_order() at time ts (a deque with maxlen)
Marked(q, ts) ==
    IF Len(q) >= OrderTimesMaxLen THEN Append(Tail(q), ts) ELSE Append(q, ts)

TriggerLevels(b, base) ==
    [i \in 1..b.max_steps |-> RMul(base, RSub(I(1), RMul(b.buy_step, I(i))))]

\* positions.remove(position) dropping nothing
RemovedNone(ps, position) == ps

\* positions.remove(position) dropping every element equal to position
RemovedAll(ps, position) == SelectSeq(ps, LAMBDA x : x # position)

\* positions.remove(position): drops the first element equal to position
RECURSIVE Removed(_, _)
Removed(ps, position) ==
    IF ps = <<>> THEN <<>>
    ELSE IF Head(ps) = position THEN Tail(ps)
    ELSE <<Head(ps)>> \o Removed(Tail(ps), position)

\* wait_seconds taken from cancel_base_wait alone, without the activity factor
CancelWaitNoActivity(b, volume) ==
    RMax(b.cancel_min_wait, RMin(b.cancel_max_wait, b.cancel_base_wait))

\* activity and wait_seconds of _cancel_expired_orders
CancelWait(b, volume) ==
    LET activity ==
            RMax(<<1, 2>>, RMin(I(2),
                RDiv(volume,
                     IF RLt(I(0), b.cancel_volume_scale)
                     THEN b.cancel_volume_scale ELSE <<1, 1000000000>>)))
    IN  RMax(b.cancel_min_wait,
             RMin(b.cancel_max_wait, RMul(b.cancel_base_wait, activity)))

NoId == <<"", 0>>
NoPosition == [price |-> I(0), quantity |-> I(0)]

\* The call run_forever is blocked in, with the locals its handler needs.
MkReq(op, side, id, p, q, position, take_profit) ==
    [op |-> op, side |-> side, id |-> id, price |-> p, quantity |-> q,
     position |-> position, take_profit |-> take_profit]

\* run_forever's local `quote` while no quote is held
NoQuote == [price |-> I(0), volume_24h |-> I(0), has_server_time |-> FALSE]

NoReq == MkReq("none", "", NoId, I(0), I(0), NoPosition, FALSE)

(***************************************************************************)
(* Construction: GridStrategy.__init__ followed by the first               *)
(* _publish_metrics() of run_forever.                                      *)
(***************************************************************************)
InitIn(E) ==
    /\ band \in E.bands
    /\ quote = NoQuote
    /\ \E p \in E.start_prices :
          /\ price = I(p)
          /\ base_price = I(p)
          /\ ewma_prev = I(p)
    /\ ewma_var = EWMAInitVar(band)
    /\ volatility = EWMAStd(band, EWMASeed(band))
    /\ tp_ratio = ComputeTargets(band, volatility).tp
    /\ sl_ratio = ComputeTargets(band, volatility).sl
    /\ positions = <<>>
    /\ realized_pnl = I(0)
    /\ wins = 0 /\ losses = 0 /\ trades = 0
    /\ last_trade_pnl = I(0)
    /\ order_times = <<>>
    /\ last_order_ts = 0
    /\ pending_orders = <<>>
    /\ cancel_refused = {}
    /\ req = NoReq
    /\ todo = <<>>
    /\ next_id = 1
    /\ clock = ClockStart
    /\ status = "running"
    /\ last_event = ""
    /\ reported_open = {}
    /\ marks = <<>>
    /\ ticks = 0
    /\ pc = "fetch"

(***************************************************************************)
(* run_forever: one tick.                                                  *)
(***************************************************************************)

\* quote = self.exchange.fetch_quote()
FetchQuote(E) ==
    /\ pc = "fetch"
    /\ ticks < E.max_ticks
    /\ ticks' = ticks + 1
    /\ \E p \in E.prices, v \in E.volumes, st \in E.server_time :
          quote' = [price |-> I(p), volume_24h |-> I(v), has_server_time |-> st]
    /\ pc' = "handle"
    /\ UNCHANGED <<clock, band, price, base_price, volatility, tp_ratio, sl_ratio,
                   ewma_prev, ewma_var, positions, realized_pnl, wins, losses, trades,
                   last_trade_pnl, order_times, last_order_ts, pending_orders, cancel_refused,
                   req, todo, next_id, status, last_event, reported_open, marks>>

\* fetch_quote raises (transport or venue failure)
FetchQuoteRaises(E) ==
    /\ pc = "fetch"
    /\ ticks < E.max_ticks
    /\ ticks' = ticks + 1
    /\ E.may_raise
    /\ pc' = "error"
    /\ UNCHANGED <<clock, band, quote, price, base_price, volatility, tp_ratio,
                   sl_ratio, ewma_prev, ewma_var, positions, realized_pnl, wins, losses,
                   trades, last_trade_pnl, order_times, last_order_ts,
                   pending_orders, cancel_refused, req, todo, next_id, status, last_event,
                   reported_open, marks>>

\* _handle_quote setting base_price to the current price while no position is held
HandleQuoteReanchors(E) ==
    /\ pc = "handle"
    /\ price' = quote.price
    /\ ewma_prev' = quote.price
    /\ \E sigma \in E.sigmas :
          /\ ewma_var' = ToUnits(RMul(sigma, sigma), VarScale)
          /\ volatility' = EWMAStd(band, sigma)
    /\ tp_ratio' = ComputeTargets(band, volatility').tp
    /\ sl_ratio' = ComputeTargets(band, volatility').sl
    /\ IF quote.has_server_time
       THEN /\ base_price' = IF positions = <<>> THEN quote.price
                           ELSE AnchoredBase(base_price, positions)
            /\ pc' = "buy"
       ELSE /\ base_price' = base_price
            /\ pc' = "error"
    /\ UNCHANGED <<clock, band, quote, positions, realized_pnl, wins, losses,
                   trades, last_trade_pnl, order_times, last_order_ts,
                   pending_orders, cancel_refused, req, todo, next_id, status, last_event, reported_open, marks, ticks>>

\* self._handle_quote(quote).  Reading quote.server_time raises AttributeError
\* when the quote object carries no such attribute; price, volatility and the
\* targets are assigned before that line, base_price after it.
HandleQuote(E) ==
    /\ pc = "handle"
    /\ price' = quote.price
    /\ ewma_prev' = quote.price
    /\ \E sigma \in E.sigmas :
          /\ ewma_var' = ToUnits(RMul(sigma, sigma), VarScale)
          /\ volatility' = EWMAStd(band, sigma)
    /\ tp_ratio' = ComputeTargets(band, volatility').tp
    /\ sl_ratio' = ComputeTargets(band, volatility').sl
    /\ IF quote.has_server_time
       THEN /\ base_price' = AnchoredBase(base_price, positions)
            /\ pc' = "buy"
       ELSE /\ base_price' = base_price
            /\ pc' = "error"
    /\ UNCHANGED <<clock, band, quote, positions, realized_pnl, wins, losses,
                   trades, last_trade_pnl, order_times, last_order_ts,
                   pending_orders, cancel_refused, req, todo, next_id, status, last_event, reported_open, marks, ticks>>

\* idx >= self.band.max_steps
LadderFull(b, ps) == Len(ps) >= b.max_steps

\* The price compared with base_price itself instead of the rung's trigger.
AboveTriggerBase(b, base, ps, p) == RLt(base, p)

\* self.price > trigger_price, with trigger_price = self._trigger_levels()[idx]
AboveTrigger(b, base, ps, p) == RLt(TriggerLevels(b, base)[Len(ps) + 1], p)

\* price, quantity and notional of the buy order of rung idx + 1
BuyOrder(b, ps, p) ==
    LET idx == Len(ps)
        order_value == RMul(b.base_order_value, RPow(b.martingale_multiplier, idx))
        quantity == RoundQuantity(ValueToQuantity(order_value, p))
        rounded == RoundPrice(p)
    IN  [price |-> rounded, quantity |-> quantity,
         notional |-> NotionalValue(rounded, quantity)]

\* self._maybe_buy(), up to the place_order call
MaybeBuy ==
    /\ pc = "buy"
    /\ IF LadderFull(band, positions)
       THEN /\ pc' = "sell"
            /\ UNCHANGED <<order_times, req>>
       ELSE /\ order_times' = OrderTimesAfterCheck(band, order_times, last_order_ts, clock)
            /\ IF \/ ~CanPlaceOrder(band, order_times, last_order_ts, clock)
                  \/ AboveTrigger(band, base_price, positions, price)
                  \/ ~IsNotionalSufficient(BuyOrder(band, positions, price).notional,
                                           BuyOrder(band, positions, price).quantity)
               THEN /\ pc' = "sell"
                    /\ UNCHANGED <<req>>
               ELSE LET o == BuyOrder(band, positions, price)
                    IN  /\ req' = MkReq("place_order", "buy", NoId, o.price,
                                        o.quantity, NoPosition, FALSE)
                        /\ pc' = "buy_place"
    /\ UNCHANGED <<clock, band, quote, price, base_price, volatility, tp_ratio,
                   sl_ratio, ewma_prev, ewma_var, positions, realized_pnl, wins, losses,
                   trades, last_trade_pnl, last_order_ts, pending_orders, cancel_refused, todo,
                   next_id, status, last_event, reported_open, marks, ticks>>

\* self._ensure_order_id(result): the venue's id, or "gen-" and the draw u of
\* uuid.uuid4() when the adapter returned an empty id
EnsureOrderId(out, n, u) == IF out = "ok" THEN <<"ord", n>> ELSE <<"gen", u>>

\* self.pending_orders = {order_id: {...}}: the older entries are dropped
RegisteredAlone(pending, id, ts, side) == (id :> [time |-> ts, side |-> side])

\* pending_orders[order_id] = {"time": ts, "side": side}
Registered(pending, id, ts, side) == (id :> [time |-> ts, side |-> side]) @@ pending

\* BuyFilled with the position recorded twice.
BuyFilledTwice(out, u) ==
    /\ positions' = positions \o << [price |-> req.price, quantity |-> req.quantity],
                                   [price |-> req.price, quantity |-> req.quantity] >>
    /\ pending_orders' = Registered(pending_orders, EnsureOrderId(out, next_id, u), clock', "buy")
    /\ cancel_refused' = cancel_refused
    /\ order_times' = Marked(order_times, clock')
    /\ last_order_ts' = clock'
    /\ marks' = Append(marks, clock')
    /\ last_event' = "BUY"
    /\ next_id' = next_id + 1

\* The successful branch of _maybe_buy after place_order returned.
BuyFilled(out, u) ==
    /\ positions' = Append(positions, [price |-> req.price, quantity |-> req.quantity])
    /\ pending_orders' = Registered(pending_orders, EnsureOrderId(out, next_id, u), clock', "buy")
    /\ cancel_refused' = cancel_refused
    /\ order_times' = Marked(order_times, clock')
    /\ last_order_ts' = clock'
    /\ marks' = Append(marks, clock')
    /\ last_event' = "BUY"
    /\ next_id' = next_id + 1

\* BuyRejected that still marks the order in the rate limiter.
BuyRejectedMarks ==
    /\ last_event' = "BUY_FAIL"
    /\ order_times' = Marked(order_times, clock')
    /\ last_order_ts' = clock'
    /\ UNCHANGED <<positions, pending_orders, cancel_refused, marks, next_id>>

\* The failing branch of _maybe_buy (result.success is false).
BuyRejected ==
    /\ last_event' = "BUY_FAIL"
    /\ UNCHANGED <<positions, pending_orders, cancel_refused, order_times, last_order_ts, marks, next_id>>

\* place_order("buy", ...) returns; the rest of _maybe_buy runs
PlaceBuyReturns(E) ==
    /\ pc = "buy_place"
    /\ \E out \in E.place \ {"raise"}, lat \in E.latency, u \in E.uuids :
          /\ out \in {"ok", "ok_noid"} => next_id <= E.max_orders
          /\ clock' = clock + lat
          /\ IF out \in {"ok", "ok_noid"} THEN BuyFilled(out, u) ELSE BuyRejected
    /\ req' = NoReq
    /\ pc' = "sell"
    /\ UNCHANGED <<band, quote, price, base_price, volatility, tp_ratio, sl_ratio,
                   ewma_prev, ewma_var, realized_pnl, wins, losses, trades, last_trade_pnl,
                   todo, status, reported_open, ticks>>

\* place_order("buy", ...) raises
PlaceBuyRaises(E) ==
    /\ pc = "buy_place"
    /\ "raise" \in E.place
    /\ req' = NoReq
    /\ pc' = "error"
    /\ UNCHANGED <<clock, band, quote, price, base_price, volatility, tp_ratio,
                   sl_ratio, ewma_prev, ewma_var, positions, realized_pnl, wins, losses,
                   trades, last_trade_pnl, order_times, last_order_ts,
                   pending_orders, cancel_refused, todo, next_id, status, last_event,
                   reported_open, marks, ticks>>

\* change = (self.price - position.price) / position.price if position.price else 0.0
Change(p, position) ==
    IF position.price = I(0) THEN I(0)
    ELSE RDiv(RSub(p, position.price), position.price)

\* take_profit with a strict comparison
TakeProfitStrict(p, position, tp) == RLt(tp, Change(p, position))

TakeProfit(p, position, tp) == RLe(tp, Change(p, position))
StopLoss(p, position, sl) == RLe(Change(p, position), RNeg(sl))

\* _maybe_sell() iterating over the positions held before this tick's buy
MaybeSellBeforeBuy ==
    /\ pc = "sell"
    /\ IF positions = <<>>
       THEN pc' = "cancel" /\ todo' = <<>>
       ELSE /\ pc' = "sell_loop"
            /\ todo' = IF last_event = "BUY"
                       THEN SubSeq(positions, 1, Len(positions) - 1)
                       ELSE positions
    /\ UNCHANGED <<clock, band, quote, price, base_price, volatility, tp_ratio,
                   sl_ratio, ewma_prev, ewma_var, positions, realized_pnl, wins,
                   losses, trades, last_trade_pnl, order_times, last_order_ts,
                   pending_orders, cancel_refused, req, next_id, status, last_event,
                   reported_open, marks, ticks>>

\* self._maybe_sell(): the early return, or the snapshot list(self.state.positions)
MaybeSell ==
    /\ pc = "sell"
    /\ IF positions = <<>>
       THEN pc' = "cancel" /\ todo' = <<>>
       ELSE pc' = "sell_loop" /\ todo' = positions
    /\ UNCHANGED <<clock, band, quote, price, base_price, volatility, tp_ratio,
                   sl_ratio, ewma_prev, ewma_var, positions, realized_pnl, wins, losses,
                   trades, last_trade_pnl, order_times, last_order_ts,
                   pending_orders, cancel_refused, req, next_id, status, last_event,
                   reported_open, marks, ticks>>

\* One iteration of the for-loop of _maybe_sell, up to the place_order call.
SellNext ==
    /\ pc = "sell_loop"
    /\ IF todo = <<>>
       THEN /\ pc' = "cancel"
            /\ UNCHANGED <<todo, order_times, req>>
       ELSE LET position == Head(todo)
                exit == \/ TakeProfit(price, position, tp_ratio)
                        \/ StopLoss(price, position, sl_ratio)
            IN  /\ todo' = Tail(todo)
                /\ IF ~exit
                   THEN /\ pc' = "sell_loop"
                        /\ UNCHANGED <<order_times, req>>
                   ELSE /\ order_times' = OrderTimesAfterCheck(band, order_times,
                                                               last_order_ts, clock)
                        /\ IF ~CanPlaceOrder(band, order_times, last_order_ts, clock)
                           THEN /\ pc' = "sell_loop"
                                /\ UNCHANGED <<req>>
                           ELSE /\ req' = MkReq("place_order", "sell", NoId,
                                               RoundPrice(price), position.quantity,
                                               position,
                                               TakeProfit(price, position, tp_ratio))
                                /\ pc' = "sell_place"
    /\ UNCHANGED <<clock, band, quote, price, base_price, volatility, tp_ratio,
                   sl_ratio, ewma_prev, ewma_var, positions, realized_pnl, wins, losses,
                   trades, last_trade_pnl, last_order_ts, pending_orders, cancel_refused,
                   next_id, status, last_event, reported_open, marks, ticks>>

\* pnl = (current_price - position.price) * position.quantity
Pnl(current_price, position) ==
    RMul(RSub(current_price, position.price), position.quantity)

\* SellFilled without _mark_order(): sells leave the rate limiter alone.
SellFilledUnmarked(out, u) ==
    LET pnl == Pnl(req.price, req.position)
    IN  /\ realized_pnl' = RAdd(realized_pnl, pnl)
        /\ trades' = trades + 1
        /\ IF RLe(I(0), pnl)
           THEN wins' = wins + 1 /\ losses' = losses
           ELSE losses' = losses + 1 /\ wins' = wins
        /\ positions' = Removed(positions, req.position)
        /\ pending_orders' = Registered(pending_orders, EnsureOrderId(out, next_id, u),
                                        clock', "sell")
        /\ cancel_refused' = cancel_refused
        /\ UNCHANGED <<order_times, last_order_ts>>
        /\ marks' = Append(marks, clock')
        /\ last_event' = "SELL"
        /\ last_trade_pnl' = pnl
        /\ next_id' = next_id + 1

\* SellFilled counting every sale as a win, and a losing one as a loss too.
SellFilledWinAlways(out, u) ==
    LET pnl == Pnl(req.price, req.position)
    IN  /\ realized_pnl' = RAdd(realized_pnl, pnl)
        /\ trades' = trades + 1
        /\ wins' = wins + 1
        /\ losses' = IF RLe(I(0), pnl) THEN losses ELSE losses + 1
        /\ positions' = Removed(positions, req.position)
        /\ pending_orders' = Registered(pending_orders, EnsureOrderId(out, next_id, u),
                                        clock', "sell")
        /\ cancel_refused' = cancel_refused
        /\ order_times' = Marked(order_times, clock')
        /\ last_order_ts' = clock'
        /\ marks' = Append(marks, clock')
        /\ last_event' = "SELL"
        /\ last_trade_pnl' = pnl
        /\ next_id' = next_id + 1

\* The successful branch of _maybe_sell after place_order returned.
SellFilled(out, u) ==
    LET pnl == Pnl(req.price, req.position)
    IN  /\ realized_pnl' = RAdd(realized_pnl, pnl)
        /\ trades' = trades + 1
        /\ IF RLe(I(0), pnl)
           THEN wins' = wins + 1 /\ losses' = losses
           ELSE losses' = losses + 1 /\ wins' = wins
        /\ positions' = Removed(positions, req.position)
        /\ pending_orders' = Registered(pending_orders, EnsureOrderId(out, next_id, u),
                                        clock', "sell")
        /\ cancel_refused' = cancel_refused
        /\ order_times' = Marked(order_times, clock')
        /\ last_order_ts' = clock'
        /\ marks' = Append(marks, clock')
        /\ last_event' = "SELL"
        /\ last_trade_pnl' = pnl
        /\ next_id' = next_id + 1

\* The failing branch of _maybe_sell (result.success is false).
SellRejected ==
    /\ last_event' = "SELL_FAIL"
    /\ UNCHANGED <<realized_pnl, trades, wins, losses, positions, pending_orders, cancel_refused,
                   order_times, last_order_ts, marks, last_trade_pnl, next_id>>

\* place_order("sell", ...) returns; the rest of the loop body runs
PlaceSellReturns(E) ==
    /\ pc = "sell_place"
    /\ \E out \in E.place \ {"raise"}, lat \in E.latency, u \in E.uuids :
          /\ out \in {"ok", "ok_noid"} => next_id <= E.max_orders
          /\ clock' = clock + lat
          /\ IF out \in {"ok", "ok_noid"} THEN SellFilled(out, u) ELSE SellRejected
    /\ req' = NoReq
    /\ pc' = "sell_loop"
    /\ UNCHANGED <<band, quote, price, base_price, volatility, tp_ratio, sl_ratio,
                   ewma_prev, ewma_var, todo, status, reported_open, ticks>>

\* place_order("sell", ...) raises
PlaceSellRaises(E) ==
    /\ pc = "sell_place"
    /\ "raise" \in E.place
    /\ req' = NoReq
    /\ pc' = "error"
    /\ UNCHANGED <<clock, band, quote, price, base_price, volatility, tp_ratio,
                   sl_ratio, ewma_prev, ewma_var, positions, realized_pnl, wins, losses,
                   trades, last_trade_pnl, order_times, last_order_ts,
                   pending_orders, cancel_refused, todo, next_id, status, last_event,
                   reported_open, marks, ticks>>

\* Orders the venue may report open: orders it accepted, and orders that were
\* not placed by this engine.
VenueOrders(E) == {<<"ord", k>> : k \in 1..(next_id - 1)} \cup E.foreign

\* The subsets of S with at most n elements.
RECURSIVE SubsetsUpTo(_, _)
SubsetsUpTo(S, n) ==
    IF n = 0 THEN {{}}
    ELSE LET smaller == SubsetsUpTo(S, n - 1)
         IN  smaller \cup {T \cup {x} : T \in smaller, x \in S}

RECURSIVE SeqOf(_)
SeqOf(S) ==
    IF S = {} THEN <<>>
    ELSE LET x == CHOOSE y \in S : TRUE IN <<x>> \o SeqOf(S \ {x})

\* The side the venue reports for an order.
VenueSide(id) ==
    IF id \in DOMAIN pending_orders THEN pending_orders[id].side ELSE "buy"

\* created = float(self.pending_orders.get(order.order_id, {}).get("time", now))
\* created with a default of 0.0 in place of now
CreatedEpoch(pending, id, now) == IF id \in DOMAIN pending THEN pending[id].time ELSE 0

Created(pending, id, now) == IF id \in DOMAIN pending THEN pending[id].time ELSE now

\* The loop's test `now - created < wait_seconds`, negated: the order is due.
Expired(now, created, wait) == ~RLt(I(now - created), wait)

\* self._cancel_expired_orders(quote), up to the list returned by
\* list_open_orders()
CancelExpiredOrders(E) ==
    /\ pc = "cancel"
    /\ \E open \in SubsetsUpTo(VenueOrders(E), E.max_open) :
          /\ reported_open' = open
          /\ todo' = SeqOf(open)
    /\ pc' = "cancel_loop"
    /\ UNCHANGED <<clock, band, quote, price, base_price, volatility, tp_ratio,
                   sl_ratio, ewma_prev, ewma_var, positions, realized_pnl, wins, losses,
                   trades, last_trade_pnl, order_times, last_order_ts,
                   pending_orders, cancel_refused, req, next_id, status, last_event, marks, ticks>>

\* list_open_orders() raises
ListOpenOrdersRaises(E) ==
    /\ pc = "cancel"
    /\ E.may_raise
    /\ pc' = "error"
    /\ UNCHANGED <<clock, band, quote, price, base_price, volatility, tp_ratio,
                   sl_ratio, ewma_prev, ewma_var, positions, realized_pnl, wins, losses,
                   trades, last_trade_pnl, order_times, last_order_ts,
                   pending_orders, cancel_refused, req, todo, next_id, status, last_event,
                   reported_open, marks, ticks>>

\* One iteration of the for-loop of _cancel_expired_orders, up to cancel_order.
\* now was read when the step began; the clock does not move inside the step.
CancelNext ==
    /\ pc = "cancel_loop"
    /\ IF todo = <<>>
       THEN /\ pc' = "emit"
            /\ reported_open' = {}
            /\ UNCHANGED <<todo, req>>
       ELSE LET id == Head(todo)
                wait == CancelWait(band, quote.volume_24h)
            IN  /\ todo' = Tail(todo)
                /\ IF ~Expired(clock, Created(pending_orders, id, clock), wait)
                   THEN /\ pc' = "cancel_loop"
                        /\ UNCHANGED <<req>>
                   ELSE /\ req' = MkReq("cancel_order", VenueSide(id), id, I(0), I(0),
                                        NoPosition, FALSE)
                        /\ pc' = "cancel_call"
                /\ UNCHANGED reported_open
    /\ UNCHANGED <<clock, band, quote, price, base_price, volatility, tp_ratio,
                   sl_ratio, ewma_prev, ewma_var, positions, realized_pnl, wins, losses,
                   trades, last_trade_pnl, order_times, last_order_ts,
                   pending_orders, cancel_refused, next_id, status, last_event, marks, ticks>>

\* self.pending_orders.pop(order.order_id, None)
Popped(pending, id) == [k \in DOMAIN pending \ {id} |-> pending[k]]

\* CancelReturns dropping the order whatever cancel_order returned
CancelReturnsAlwaysPops(E) ==
    /\ pc = "cancel_call"
    /\ \E out \in E.cancel \ {"raise"} :
          /\ pending_orders' = Popped(pending_orders, req.id)
          /\ cancel_refused' = IF out = "true" THEN cancel_refused \ {req.id}
                               ELSE cancel_refused \cup {req.id}
    /\ req' = NoReq
    /\ pc' = "cancel_loop"
    /\ UNCHANGED <<clock, band, quote, price, base_price, volatility, tp_ratio,
                   sl_ratio, ewma_prev, ewma_var, positions, realized_pnl, wins, losses,
                   trades, last_trade_pnl, order_times, last_order_ts, todo,
                   next_id, status, last_event, reported_open, marks, ticks>>

\* cancel_order(...) returns True or False
CancelReturns(E) ==
    /\ pc = "cancel_call"
    /\ \E out \in E.cancel \ {"raise"} :
          /\ pending_orders' = IF out = "true" THEN Popped(pending_orders, req.id)
                               ELSE pending_orders
          /\ cancel_refused' = IF out = "true" THEN cancel_refused \ {req.id}
                               ELSE cancel_refused \cup {req.id}
    /\ req' = NoReq
    /\ pc' = "cancel_loop"
    /\ UNCHANGED <<clock, band, quote, price, base_price, volatility, tp_ratio,
                   sl_ratio, ewma_prev, ewma_var, positions, realized_pnl, wins, losses,
                   trades, last_trade_pnl, order_times, last_order_ts, todo,
                   next_id, status, last_event, reported_open, marks, ticks>>

\* cancel_order(...) raises
CancelRaises(E) ==
    /\ pc = "cancel_call"
    /\ "raise" \in E.cancel
    /\ req' = NoReq
    /\ pc' = "error"
    /\ UNCHANGED <<clock, band, quote, price, base_price, volatility, tp_ratio,
                   sl_ratio, ewma_prev, ewma_var, positions, realized_pnl, wins, losses,
                   trades, last_trade_pnl, order_times, last_order_ts,
                   pending_orders, cancel_refused, todo, next_id, status, last_event,
                   reported_open, marks, ticks>>

\* self._log_status(); self._publish_metrics()
PublishMetrics ==
    /\ pc = "emit"
    /\ status' = "running"
    /\ pc' = "sleep"
    /\ UNCHANGED <<clock, band, quote, price, base_price, volatility, tp_ratio,
                   sl_ratio, ewma_prev, ewma_var, positions, realized_pnl, wins, losses,
                   trades, last_trade_pnl, order_times, last_order_ts,
                   pending_orders, cancel_refused, req, todo, next_id, last_event,
                   reported_open, marks, ticks>>

\* time.sleep(self.band.sleep_seconds + random.uniform(0.0, 0.3)); the next
\* iteration of `while True` begins.  extra is the jitter together with the
\* time the tick's other blocking calls took.
Sleep(E) ==
    /\ pc = "sleep"
    /\ \E extra \in E.elapse :
          clock' = clock + band.sleep_seconds + extra
    /\ pc' = "fetch"
    /\ last_event' = ""
    /\ reported_open' = {}
    /\ todo' = <<>>
    /\ quote' = NoQuote
    /\ UNCHANGED <<band, price, base_price, volatility, tp_ratio, sl_ratio,
                   ewma_prev, ewma_var, positions, realized_pnl, wins, losses, trades,
                   last_trade_pnl, order_times, last_order_ts, pending_orders, cancel_refused,
                   req, next_id, status, marks, ticks>>

\* HandleError that drops the positions held when the exception was caught.
HandleErrorRollback(E) ==
    /\ pc = "error"
    /\ status' = "error"
    /\ positions' = <<>>
    /\ clock' = clock + ErrorPauseSeconds
    /\ pc' = "fetch"
    /\ last_event' = ""
    /\ reported_open' = {}
    /\ todo' = <<>>
    /\ quote' = NoQuote
    /\ UNCHANGED <<band, price, base_price, volatility, tp_ratio, sl_ratio,
                   ewma_prev, ewma_var, realized_pnl, wins, losses, trades,
                   last_trade_pnl, order_times, last_order_ts, pending_orders, cancel_refused,
                   req, next_id, marks, ticks>>

\* HandleError that lets the exception end run_forever.
HandleErrorStops(E) ==
    /\ pc = "error"
    /\ status' = "error"
    /\ pc' = "stopped"
    /\ UNCHANGED <<clock, band, quote, price, base_price, volatility, tp_ratio,
                   sl_ratio, ewma_prev, ewma_var, positions, realized_pnl, wins, losses,
                   trades, last_trade_pnl, order_times, last_order_ts,
                   pending_orders, cancel_refused, req, todo, next_id, last_event,
                   reported_open, marks, ticks>>

\* except Exception: log_error, _publish_metrics(status="error"), time.sleep(5);
\* the next iteration of `while True` begins.
HandleError(E) ==
    /\ pc = "error"
    /\ status' = "error"
    /\ clock' = clock + ErrorPauseSeconds
    /\ pc' = "fetch"
    /\ last_event' = ""
    /\ reported_open' = {}
    /\ todo' = <<>>
    /\ quote' = NoQuote
    /\ UNCHANGED <<band, price, base_price, volatility, tp_ratio, sl_ratio,
                   ewma_prev, ewma_var, positions, realized_pnl, wins, losses, trades,
                   last_trade_pnl, order_times, last_order_ts, pending_orders, cancel_refused,
                   req, next_id, marks, ticks>>

Init == InitIn(EnvFull)

Next ==
    \/ FetchQuote(EnvFull)
    \/ FetchQuoteRaises(EnvFull)
    \/ HandleQuote(EnvFull)
    \/ MaybeBuy
    \/ PlaceBuyReturns(EnvFull)
    \/ PlaceBuyRaises(EnvFull)
    \/ MaybeSell
    \/ SellNext
    \/ PlaceSellReturns(EnvFull)
    \/ PlaceSellRaises(EnvFull)
    \/ CancelExpiredOrders(EnvFull)
    \/ ListOpenOrdersRaises(EnvFull)
    \/ CancelNext
    \/ CancelReturns(EnvFull)
    \/ CancelRaises(EnvFull)
    \/ PublishMetrics
    \/ Sleep(EnvFull)
    \/ HandleError(EnvFull)

Spec == Init /\ [][Next]_vars

(***************************************************************************)
(* The same engine under EnvBurst.                                         *)
(***************************************************************************)
InitBurst == InitIn(EnvBurst)

NextBurst ==
    \/ FetchQuote(EnvBurst)
    \/ HandleQuote(EnvBurst)
    \/ MaybeBuy
    \/ PlaceBuyReturns(EnvBurst)
    \/ MaybeSell
    \/ SellNext
    \/ PlaceSellReturns(EnvBurst)
    \/ CancelExpiredOrders(EnvBurst)
    \/ CancelNext
    \/ PublishMetrics
    \/ Sleep(EnvBurst)

SpecBurst == InitBurst /\ [][NextBurst]_vars

\* The same engine under EnvRound.
InitRound == InitIn(EnvRound)

NextRound ==
    \/ FetchQuote(EnvRound)
    \/ HandleQuote(EnvRound)
    \/ MaybeBuy
    \/ PlaceBuyReturns(EnvRound)
    \/ MaybeSell
    \/ SellNext
    \/ PlaceSellReturns(EnvRound)
    \/ CancelExpiredOrders(EnvRound)
    \/ CancelNext
    \/ PublishMetrics
    \/ Sleep(EnvRound)

SpecRound == InitRound /\ [][NextRound]_vars

\* The same engine under EnvIds.
InitIds == InitIn(EnvIds)

NextIds ==
    \/ FetchQuote(EnvIds)
    \/ HandleQuote(EnvIds)
    \/ MaybeBuy
    \/ PlaceBuyReturns(EnvIds)
    \/ MaybeSell
    \/ SellNext
    \/ PlaceSellReturns(EnvIds)
    \/ CancelExpiredOrders(EnvIds)
    \/ CancelNext
    \/ PublishMetrics
    \/ Sleep(EnvIds)

SpecIds == InitIds /\ [][NextIds]_vars

\* The same engine under EnvExit; the loop keeps running: every step of
\* run_forever returns and the next one begins.
InitExit == InitIn(EnvExit)

NextExit ==
    \/ FetchQuote(EnvExit)
    \/ HandleQuote(EnvExit)
    \/ MaybeBuy
    \/ PlaceBuyReturns(EnvExit)
    \/ MaybeSell
    \/ SellNext
    \/ PlaceSellReturns(EnvExit)
    \/ CancelExpiredOrders(EnvExit)
    \/ CancelNext
    \/ PublishMetrics
    \/ Sleep(EnvExit)

\* The statement at which run_forever stands returns and control moves on.
\* Every step of NextExit either changes pc or shortens todo, and a step is
\* possible at every label until the last tick of the horizon has been
\* fetched, so weak fairness of this action is weak fairness of NextExit.
ControlMoves ==
    /\ pc = "fetch" => ticks < EnvExit.max_ticks
    /\ pc' \in {"fetch", "handle", "buy", "buy_place", "sell", "sell_loop",
                "sell_place", "cancel", "cancel_loop", "emit", "sleep"}

SpecExit == InitExit /\ [][NextExit]_vars /\ WF_pc(ControlMoves)

\* The same engine under EnvAnchor.
InitAnchor == InitIn(EnvAnchor)

NextAnchor ==
    \/ FetchQuote(EnvAnchor)
    \/ HandleQuote(EnvAnchor)
    \/ MaybeBuy
    \/ PlaceBuyReturns(EnvAnchor)
    \/ MaybeSell
    \/ SellNext
    \/ PlaceSellReturns(EnvAnchor)
    \/ CancelExpiredOrders(EnvAnchor)
    \/ CancelNext
    \/ PublishMetrics
    \/ Sleep(EnvAnchor)

SpecAnchor == InitAnchor /\ [][NextAnchor]_vars

\* The same engine under EnvShared.
InitShared == InitIn(EnvShared)

NextShared ==
    \/ FetchQuote(EnvShared)
    \/ HandleQuote(EnvShared)
    \/ MaybeBuy
    \/ PlaceBuyReturns(EnvShared)
    \/ MaybeSell
    \/ SellNext
    \/ PlaceSellReturns(EnvShared)
    \/ CancelExpiredOrders(EnvShared)
    \/ CancelNext
    \/ PublishMetrics
    \/ Sleep(EnvShared)

SpecShared == InitShared /\ [][NextShared]_vars

\* The same engine under EnvCancel.
InitCancel == InitIn(EnvCancel)

NextCancel ==
    \/ FetchQuote(EnvCancel)
    \/ HandleQuote(EnvCancel)
    \/ MaybeBuy
    \/ PlaceBuyReturns(EnvCancel)
    \/ MaybeSell
    \/ SellNext
    \/ PlaceSellReturns(EnvCancel)
    \/ CancelExpiredOrders(EnvCancel)
    \/ CancelNext
    \/ CancelReturns(EnvCancel)
    \/ PublishMetrics
    \/ Sleep(EnvCancel)

SpecCancel == InitCancel /\ [][NextCancel]_vars

\* The same engine under EnvUnknown.
InitUnknown == InitIn(EnvUnknown)

NextUnknown ==
    \/ FetchQuote(EnvUnknown)
    \/ HandleQuote(EnvUnknown)
    \/ MaybeBuy
    \/ PlaceBuyReturns(EnvUnknown)
    \/ MaybeSell
    \/ SellNext
    \/ PlaceSellReturns(EnvUnknown)
    \/ CancelExpiredOrders(EnvUnknown)
    \/ CancelNext
    \/ CancelReturns(EnvUnknown)
    \/ PublishMetrics
    \/ Sleep(EnvUnknown)

SpecUnknown == InitUnknown /\ [][NextUnknown]_vars

\* The same engine under EnvQty.
InitQty == InitIn(EnvQty)

NextQty ==
    \/ FetchQuote(EnvQty)
    \/ HandleQuote(EnvQty)
    \/ MaybeBuy
    \/ PlaceBuyReturns(EnvQty)
    \/ MaybeSell
    \/ SellNext
    \/ PlaceSellReturns(EnvQty)
    \/ CancelExpiredOrders(EnvQty)
    \/ CancelNext
    \/ PublishMetrics
    \/ Sleep(EnvQty)

SpecQty == InitQty /\ [][NextQty]_vars

\* The estimator alone: EWMA.__init__, then calls of EWMA.update.  ticks counts
\* the calls, volatility is the value the last call returned (std() of the
\* fresh estimator before the first call); the engine's other fields rest.
InitEWMA ==
    /\ band \in EnvEWMA.bands
    /\ ewma_prev = NoPrev
    /\ ewma_var = EWMAInitVar(band)
    /\ volatility = EWMAStd(band, EWMASigma(ewma_var))
    /\ quote = NoQuote
    /\ price = I(0) /\ base_price = I(0)
    /\ tp_ratio = ComputeTargets(band, volatility).tp
    /\ sl_ratio = ComputeTargets(band, volatility).sl
    /\ positions = <<>>
    /\ realized_pnl = I(0)
    /\ wins = 0 /\ losses = 0 /\ trades = 0
    /\ last_trade_pnl = I(0)
    /\ order_times = <<>>
    /\ last_order_ts = 0
    /\ pending_orders = <<>>
    /\ cancel_refused = {}
    /\ req = NoReq
    /\ todo = <<>>
    /\ next_id = 1
    /\ clock = ClockStart
    /\ status = "running"
    /\ last_event = ""
    /\ reported_open = {}
    /\ marks = <<>>
    /\ ticks = 0
    /\ pc = "fetch"

\* self.vol_estimator.update(price)
EWMAUpdate(E) ==
    /\ ticks < E.max_calls
    /\ ticks' = ticks + 1
    /\ \E p \in E.prices :
          LET after == EWMAUpdated(band, ewma_prev, ewma_var, I(p))
          IN  /\ ewma_prev' = after.prev
              /\ ewma_var' = after.var
              /\ volatility' = EWMAStd(band, EWMASigma(after.var))
    /\ UNCHANGED <<pc, clock, band, quote, price, base_price, tp_ratio, sl_ratio,
                   positions, realized_pnl, wins, losses, trades, last_trade_pnl,
                   order_times, last_order_ts, pending_orders, cancel_refused, req, todo,
                   next_id, status, last_event, reported_open, marks>>

NextEWMA == EWMAUpdate(EnvEWMA)

SpecEWMA == InitEWMA /\ [][NextEWMA]_vars

\* The except branch runs to its end: log_error and _publish_metrics return
\* and time.sleep(5) ends.
SpecLive == Spec /\ WF_vars(HandleError(EnvFull))

(***************************************************************************)
(* Properties.                                                             *)
(***************************************************************************)

\* The trading state an exception handler or a rejected order could disturb.
EngineState ==
    <<positions, realized_pnl, wins, losses, trades, last_trade_pnl,
      pending_orders, order_times, last_order_ts>>

\* C1: the number of open positions never exceeds band.max_steps.
PositionsWithinMaxSteps == Len(positions) <= band.max_steps

\* The ladder is full (max_steps >= 1 positions are held) and the buy step of
\* this tick has run without buying.
LadderFullAndBuySkipped ==
    /\ band.max_steps >= 1
    /\ Len(positions) = band.max_steps
    /\ pc = "sell"
    /\ last_event = ""

\* Number of marks inside the 60-second window that ends at marks[i].
MarksInWindow(i) ==
    Cardinality({j \in 1..i : marks[i] - marks[j] <= WindowSeconds})

\* C2: every rolling 60-second window holds at most max_orders_per_minute
\* marked orders (buys and sells together).
WindowHoldsAtMostCap ==
    \A i \in 1..Len(marks) : MarksInWindow(i) <= band.max_orders_per_minute

\* C3: consecutive marked orders are at least order_cooldown seconds apart.
MarksCooldownApart ==
    \A i \in 1..(Len(marks) - 1) : marks[i + 1] - marks[i] >= band.order_cooldown

\* A buy signal (ladder not full, price at or below the trigger) arrived less
\* than order_cooldown seconds after the last marked order and was refused.
BuyRefusedInCooldown ==
    /\ pc = "sell"
    /\ last_event = ""
    /\ marks # <<>>
    /\ ~LadderFull(band, positions)
    /\ ~AboveTrigger(band, base_price, positions, price)
    /\ clock - last_order_ts < band.order_cooldown

\* C4: a step that raises leaves positions, PnL, counters, pending orders and
\* the rate limiter as they are; the handler publishes status = error, rolls
\* nothing back and returns to the top of the loop.
ErrorKeepsState ==
    [][ /\ (pc' = "error" => UNCHANGED EngineState)
        /\ (pc = "error" =>
               /\ UNCHANGED EngineState
               /\ status' = "error"
               /\ pc' = "fetch") ]_vars

\* The first tick bought, then raised; its position, pending order and mark
\* are still there when the next tick is about to start.
ErrorTickKeptItsBuy ==
    /\ pc = "fetch"
    /\ ticks = 1
    /\ status = "error"
    /\ Len(positions) = 1
    /\ Len(marks) = 1
    /\ DOMAIN pending_orders # {}

\* C5: the error state is always left again, for the top of the loop.
ErrorIsLeft == (pc = "error") ~> (pc = "fetch" /\ status = "error")

\* A tick that follows a tick ended in the error state has fetched its quote.
TickAfterError ==
    /\ pc = "handle"
    /\ ticks = 2
    /\ status = "error"

\* place_order returned (it did not raise) and the venue accepted nothing.
RejectStep ==
    /\ pc \in {"buy_place", "sell_place"}
    /\ pc' # "error"
    /\ next_id' = next_id

\* C6: a rejected order leaves a *_FAIL record and nothing else: positions,
\* PnL, counters, pending orders and the rate limiter are unchanged, the tick
\* goes on, and the position of a rejected sell is still held.
RejectionOnlyLogs ==
    [][ RejectStep =>
          /\ last_event' = (IF pc = "buy_place" THEN "BUY_FAIL" ELSE "SELL_FAIL")
          /\ UNCHANGED <<EngineState, status>>
          /\ pc' = (IF pc = "buy_place" THEN "sell" ELSE "sell_loop")
          /\ (pc = "sell_place" =>
                 \E i \in DOMAIN positions' : positions'[i] = req.position) ]_vars

\* A sell was rejected and its position is still held.
RejectedSellKeepsPosition ==
    /\ pc = "sell_loop"
    /\ last_event = "SELL_FAIL"
    /\ positions # <<>>

\* C7: the buy step taken with a free rung and the price above that rung's
\* trigger calls no adapter and changes no state, the rate limiter's window
\* and last-order time included.
BuySkipChangesNothing ==
    [][ (/\ pc = "buy"
         /\ ~LadderFull(band, positions)
         /\ AboveTrigger(band, base_price, positions, price)) =>
          /\ pc' = "sell"
          /\ UNCHANGED <<clock, band, quote, price, base_price, volatility,
                         tp_ratio, sl_ratio, ewma_prev, ewma_var, positions, realized_pnl,
                         wins, losses, trades, last_trade_pnl, order_times,
                         last_order_ts, pending_orders, cancel_refused, req, todo, next_id,
                         status, last_event, reported_open, marks, ticks>> ]_vars

\* C8: when the expiry step of a tick ends, every pending order id is one the
\* adapter reported open in that tick.
PendingOnlyReportedOpen ==
    [][ (pc = "cancel_loop" /\ pc' = "emit") =>
          DOMAIN pending_orders' \subseteq reported_open ]_vars

\* clamp(x, lo, hi)
Clamp(x, lo, hi) == RMin(RMax(x, lo), hi)

\* wait = clamp(cancelBaseWait * clamp(volume24h / cancelVolumeScale, 0.5, 2.0),
\*              cancelMinWait, cancelMaxWait)
ClaimedWait(b, volume) ==
    Clamp(RMul(b.cancel_base_wait,
               Clamp(RDiv(volume, b.cancel_volume_scale), <<1, 2>>, I(2))),
          b.cancel_min_wait, b.cancel_max_wait)

\* C9: for an order reported open that is in the pending set, cancel_order is
\* requested if and only if now - submittedAt >= wait, wait being the clamped
\* product above (20 for base 10, min 5, max 30, scale 2000, volume 4000).
CancelIffExpired ==
    [][ (/\ pc = "cancel_loop"
         /\ todo # <<>>
         /\ Head(todo) \in DOMAIN pending_orders) =>
          LET id == Head(todo)
              age == clock - pending_orders[id].time
          IN  /\ (pc' = "cancel_call" /\ req'.op = "cancel_order" /\ req'.id = id)
                    <=> RLe(ClaimedWait(band, quote.volume_24h), I(age))
              /\ (quote.volume_24h = I(4000) =>
                     CancelWait(band, quote.volume_24h) = I(20)) ]_vars

\* With volume 4000 (wait 20) cancel_order is being requested for a pending
\* order submitted 21 seconds ago.
CancelRequestedAt21 ==
    /\ pc = "cancel_call"
    /\ req.id \in DOMAIN pending_orders
    /\ quote.volume_24h = I(4000)
    /\ clock - pending_orders[req.id].time = 21

\* trigger = basePrice * (1 - buyStep * (idx + 1))
ClaimedTrigger(b, base, idx) == RMul(base, RSub(I(1), RMul(b.buy_step, I(idx + 1))))

\* C10: with a free rung, the rate limiter permitting and the notional
\* sufficient, the buy step calls place_order("buy") if and only if
\* price <= basePrice * (1 - buyStep * (idx + 1)).
BuyIffAtOrBelowTrigger ==
    [][ (/\ pc = "buy"
         /\ Len(positions) < band.max_steps
         /\ CanPlaceOrder(band, order_times, last_order_ts, clock)
         /\ IsNotionalSufficient(BuyOrder(band, positions, price).notional,
                                 BuyOrder(band, positions, price).quantity)) =>
          ((pc' = "buy_place" /\ req'.op = "place_order" /\ req'.side = "buy")
             <=> RLe(price, ClaimedTrigger(band, base_price, Len(positions)))) ]_vars

\* With basePrice 100.0, buyStep 0.01 and no position, a quote of 98.9 has led
\* to a buy attempt.
BuyAttemptAt989 ==
    /\ pc = "buy_place"
    /\ req.side = "buy"
    /\ base_price = I(1000)
    /\ band.buy_step = <<1, 100>>
    /\ positions = <<>>
    /\ price = I(989)

\* With the same anchor a quote of 99.5 passed the buy step without an attempt.
NoBuyAt995 ==
    /\ pc = "sell"
    /\ last_event = ""
    /\ band.max_steps >= 1
    /\ base_price = I(1000)
    /\ positions = <<>>
    /\ price = I(995)

\* A pending order 19 seconds old was reported open with volume 4000 and the
\* loop went on without requesting its cancellation.
NotCancelledAt19 ==
    /\ pc = "cancel_loop"
    /\ todo = <<>>
    /\ quote.volume_24h = I(4000)
    /\ \E id \in reported_open \cap DOMAIN pending_orders :
          clock - pending_orders[id].time = 19

\* change = (price - entryPrice) / entryPrice
ClaimedChange(p, entry) == RDiv(RSub(p, entry), entry)

\* change >= tpRatio or change <= -slRatio
ClaimedExit(p, entry, tp, sl) ==
    \/ RLe(tp, ClaimedChange(p, entry))
    \/ RLe(ClaimedChange(p, entry), RNeg(sl))

\* C11: for every open position of the tick, a sell of its full quantity is
\* submitted if and only if change >= tpRatio or change <= -slRatio, and the
\* rate limiter permits at that moment (entry 100, tp 0.02: 102.1 is an exit,
\* 101.9 is not).
SellIffExitAndPermitted ==
    [][ (pc = "sell_loop" /\ todo # <<>>) =>
          LET position == Head(todo)
          IN  /\ (/\ pc' = "sell_place"
                  /\ req'.op = "place_order"
                  /\ req'.side = "sell"
                  /\ req'.position = position
                  /\ req'.quantity = position.quantity)
                    <=> (/\ ClaimedExit(price, position.price, tp_ratio, sl_ratio)
                         /\ CanPlaceOrder(band, order_times, last_order_ts, clock))
              /\ TakeProfit(I(1021), [price |-> I(1000), quantity |-> I(1)], <<2, 100>>)
              /\ ~TakeProfit(I(1019), [price |-> I(1000), quantity |-> I(1)], <<2, 100>>)
              /\ ~StopLoss(I(1019), [price |-> I(1000), quantity |-> I(1)], <<2, 100>>) ]_vars

\* A sell is being submitted for a position whose gain reached tpRatio = 0.02.
SellSubmittedOnTakeProfit ==
    /\ pc = "sell_place"
    /\ req.side = "sell"
    /\ req.take_profit
    /\ tp_ratio = <<2, 100>>
    /\ req.quantity = req.position.quantity

\* A position due for its stop loss was passed over because the rate limiter
\* refused (the cooldown since the last order had not passed).
ExitRefusedByLimiter ==
    /\ pc = "sell_loop"
    /\ todo = <<>>
    /\ last_event = ""
    /\ \E i \in DOMAIN positions : StopLoss(price, positions[i], sl_ratio)
    /\ clock - last_order_ts < band.order_cooldown

\* Number of elements of ps equal to x.
Count(ps, x) == Cardinality({i \in DOMAIN ps : ps[i] = x})

\* place_order("sell") returned and the venue accepted the order.
SellAccepted == pc = "sell_place" /\ next_id' > next_id

\* C12: an accepted sell of a position removes exactly one position from the
\* ladder, also when an equal position is open, and when it is sold at
\* entryPrice * (1 + tpRatio) it adds entryPrice * tpRatio * quantity to the
\* realized PnL.
RoundTrip ==
    [][ SellAccepted =>
          LET sold == req.position
          IN  /\ Len(positions') = Len(positions) - 1
              /\ \A i \in DOMAIN positions :
                    Count(positions', positions[i]) =
                       Count(positions, positions[i])
                         - (IF positions[i] = sold THEN 1 ELSE 0)
              /\ (req.price = RMul(sold.price, RAdd(I(1), tp_ratio)) =>
                     realized_pnl' =
                        RAdd(realized_pnl,
                             RMul(RMul(sold.price, tp_ratio), sold.quantity))) ]_vars

\* Two equal positions (entry 100.0, quantity 0.1) were bought; one of them was
\* sold at 102.0 = 100.0 * 1.02 for a PnL of 100.0 * 0.02 * 0.1 and the other
\* is still held.
TwinSoldOnce ==
    /\ last_event = "SELL"
    /\ trades = 1
    /\ Len(marks) = 3
    /\ price = I(1020)
    /\ positions = <<[price |-> I(1000), quantity |-> <<1, 10>>]>>
    /\ realized_pnl = I(2)

\* C13: every value EWMA.update returns lies in [floor, ceiling].
VolatilityWithinBounds ==
    /\ RLe(band.vol_min, volatility)
    /\ RLe(volatility, band.vol_max)

\* After a 30% jump the square root of the variance is above a ceiling that is above the floor, and the ceiling was returned.
CeilingReturned ==
    /\ ticks >= 3
    /\ RLt(band.vol_min, band.vol_max)
    /\ RLt(band.vol_max, EWMASigma(ewma_var))
    /\ volatility = band.vol_max

\* EWMA.update is called with the positive price of the call before.
ConstantFeed ==
    /\ ticks' = ticks + 1
    /\ ewma_prev # NoPrev
    /\ RLt(I(0), ewma_prev)
    /\ ewma_prev' = ewma_prev

WindowAlwaysFresh ==
    \A i \in DOMAIN order_times : clock - order_times[i] <= WindowSeconds

\* _can_place_order() runs in this step and gets past its cooldown test.
WindowChecked ==
    /\ \/ pc = "buy" /\ ~LadderFull(band, positions)
       \/ /\ pc = "sell_loop"
          /\ todo # <<>>
          /\ \/ TakeProfit(price, Head(todo), tp_ratio)
             \/ StopLoss(price, Head(todo), sl_ratio)
    /\ clock - last_order_ts >= band.order_cooldown

\* C15 as the code has it: the window is pruned lazily.  Right after every
\* _can_place_order() that gets past the cooldown test the window holds no
\* entry older than 60 seconds, so none is counted against the cap and none
\* is there when an order is submitted; between such checks entries may
\* outlive the 60 seconds.
WindowFreshAfterCheck ==
    [][ (WindowChecked \/ pc' \in {"buy_place", "sell_place"}) =>
          \A i \in DOMAIN order_times' :
             clock' - order_times'[i] <= WindowSeconds ]_vars

\* The buy step has just pruned the window: both orders of the run were
\* marked more than 60 seconds ago and the window is empty.
StaleEntriesPruned ==
    /\ pc \in {"sell", "buy_place"}
    /\ Len(marks) = 2
    /\ clock - last_order_ts > WindowSeconds
    /\ order_times = <<>>

\* avgEntry: the quantity-weighted mean entry price
ClaimedAvgEntry(ps) == RDiv(SumCost(ps), SumQty(ps))

\* C16: base_price changes only in a quote step that runs to its end with
\* positions held, and then it becomes min(base_price, avgEntry), or avgEntry
\* if base_price <= 0; with no position the tick leaves it unchanged.
BaseAnchoring ==
    [][ base_price' =
          IF pc = "handle" /\ pc' = "buy" /\ positions # <<>>
          THEN IF RLe(base_price, I(0)) THEN ClaimedAvgEntry(positions)
               ELSE IF RLt(ClaimedAvgEntry(positions), base_price)
                    THEN ClaimedAvgEntry(positions)
                    ELSE base_price
          ELSE base_price ]_vars

\* The quote step of the tick after the first buy has lowered base_price from
\* the starting price to the entry price of the one position held.
BaseLoweredToEntry ==
    /\ pc = "buy"
    /\ ticks = 2
    /\ Len(positions) = 1
    /\ base_price = positions[1].price
    /\ RLt(base_price, I(1000))

\* After a full exit (a buy and its sell in the first tick) the quote step of
\* the second tick has left base_price where it was.
BaseKeptAfterExit ==
    /\ pc = "buy"
    /\ ticks = 2
    /\ trades = 1
    /\ positions = <<>>
    /\ base_price = I(1000)

\* The step of the tick a position of run_forever belongs to: 1 quote refresh,
\* 2 buy evaluation, 3 sell evaluation, 4 pending-order expiry, 5 status emit,
\* 6 sleep, 7 the except branch.
Stage(at) ==
    CASE at \in {"fetch", "handle"} -> 1
      [] at \in {"buy", "buy_place"} -> 2
      [] at \in {"sell", "sell_loop", "sell_place"} -> 3
      [] at \in {"cancel", "cancel_loop", "cancel_call"} -> 4
      [] at = "emit" -> 5
      [] at = "sleep" -> 6
      [] at = "error" -> 7

\* C17: a tick runs quote refresh, buy evaluation, sell evaluation, expiry,
\* status emit and sleep in this order without skipping one (an exception
\* aside); base_price is anchored inside the quote step; a new tick begins only
\* after the sleep (or the error pause) has ended; and the sell step iterates
\* over the positions as the buy step of the same tick left them.
TickOrder ==
    [][ /\ \/ Stage(pc') = Stage(pc)
           \/ Stage(pc') = Stage(pc) + 1
           \/ pc' = "error"
           \/ pc \in {"sleep", "error"} /\ pc' = "fetch"
        /\ (pc' = "fetch" /\ pc # "fetch" =>
               /\ pc \in {"sleep", "error"}
               /\ clock' >= clock + (IF pc = "sleep" THEN band.sleep_seconds
                                     ELSE ErrorPauseSeconds))
        /\ (ticks' # ticks => pc = "fetch" /\ ticks' = ticks + 1)
        /\ (base_price' # base_price => pc = "handle")
        /\ (pc = "sell" /\ pc' = "sell_loop" => todo' = positions) ]_vars

\* The first tick bought a position and its sell step sold that position.
BoughtAndSoldInOneTick ==
    /\ ticks = 1
    /\ last_event = "SELL"
    /\ Len(marks) = 2
    /\ trades = 1
    /\ positions = <<>>

\* The first tick's buy was accepted by an adapter that returned no order id;
\* the band, the quote, the clock readings and the adapter's response are the
\* same in every state that satisfies this.
FirstBuyWithoutId ==
    /\ ticks = 1
    /\ pc = "sell"
    /\ band = BandFast
    /\ price = I(989)
    /\ clock = ClockStart
    /\ Len(positions) = 1
    /\ \E k \in DOMAIN pending_orders : k[1] = "gen"

\* C18: two runs with the same band, quotes, clock readings and adapter
\* responses reach the same pending set: after the inputs of FirstBuyWithoutId
\* the pending set is the one of the run in which uuid4 drew 1.
SameInputsSamePending ==
    FirstBuyWithoutId =>
        pending_orders = (<<"gen", 1>> :> [time |-> ClockStart, side |-> "buy"])

\* The same inputs in the run in which uuid4 drew 2.
SameInputsOtherPending ==
    FirstBuyWithoutId =>
        pending_orders = (<<"gen", 2>> :> [time |-> ClockStart, side |-> "buy"])

\* C19: every position of the ladder has quantity > 0, and so has every buy
\* order handed to place_order.
PositionsQuantityPositive ==
    /\ \A i \in 1..Len(positions) : RLt(I(0), positions[i].quantity)
    /\ (req.op = "place_order" /\ req.side = "buy" => RLt(I(0), req.quantity))

\* The buy step has just ended without an order although the ladder had room,
\* the limiter permitted an order and the price was at or below the trigger:
\* the computed quantity was zero or negative.
NonPositiveQuantitySkipped ==
    /\ pc = "sell"
    /\ req = NoReq
    /\ last_event # "BUY" /\ last_event # "BUY_FAIL"
    /\ ~LadderFull(band, positions)
    /\ CanPlaceOrder(band, order_times, last_order_ts, clock)
    /\ ~AboveTrigger(band, base_price, positions, price)
    /\ RLe(BuyOrder(band, positions, price).quantity, I(0))

\* The skipped quantity was negative (the band's order value is negative).
NegativeQuantitySkipped ==
    /\ NonPositiveQuantitySkipped
    /\ RLt(BuyOrder(band, positions, price).quantity, I(0))

\* The parameter checks the configuration contract names: max_steps >= 0,
\* buy_step > 0, max_orders_per_minute > 0, cancel_min_wait <= cancel_max_wait
\* and vol_min <= vol_max.
BandValid(b) ==
    /\ b.max_steps >= 0
    /\ RLt(I(0), b.buy_step)
    /\ b.max_orders_per_minute > 0
    /\ RLe(b.cancel_min_wait, b.cancel_max_wait)
    /\ RLe(b.vol_min, b.vol_max)

\* C20: with an invalid band the engine executes no tick and hands no order
\* to place_order.
InvalidBandNeverTicks ==
    ~BandValid(band) =>
        /\ ticks = 0
        /\ req.op # "place_order"
        /\ marks = <<>>

\* A band with buy_step = 0 has run a tick and its buy was accepted.
InvalidBandBought ==
    /\ ~BandValid(band)
    /\ ticks >= 1
    /\ last_event = "BUY"
    /\ Len(positions) >= 1

\* EWMA.update is called while the previous price is unset or not positive, or
\* with a price that is not positive.
ReseedCall ==
    /\ ticks' = ticks + 1
    /\ \/ ewma_prev = NoPrev
       \/ RLe(ewma_prev, I(0))
       \/ RLe(ewma_prev', I(0))

\* C21: a call of EWMA.update with previousPrice <= 0 (or unset) or price <= 0
\* stores the price as previousPrice and leaves the variance unchanged.
ReseedKeepsVariance ==
    [][ ReseedCall => ewma_var' = ewma_var ]_vars

\* The first positive price after a non-positive one has been fed and the
\* variance is below its initial value.
VarianceDecayedAfterReseed ==
    /\ ticks = 2
    /\ RLt(I(0), ewma_prev)
    /\ ewma_var < EWMAInitVar(band)

\* place_order returned success (buy or sell): the venue accepted the order.
OrderAccepted == pc \in {"buy_place", "sell_place"} /\ next_id' > next_id

\* C22: an accepted order adds exactly one pending entry under the order's id
\* with its side and the time of the submission, and marks the rate limiter
\* once; nothing else marks the limiter (a probe may only drop old entries) and
\* only the expiry step removes pending entries; an order's id is fresh, so k
\* accepted orders without a cancellation are k pending entries.
AcceptedRegistersAndMarksOnce ==
    /\ [][ /\ OrderAccepted =>
                /\ <<"ord", next_id>> \notin DOMAIN pending_orders
                /\ pending_orders' = (<<"ord", next_id>> :>
                                        [time |-> clock', side |-> req.side])
                                     @@ pending_orders
                /\ order_times' = Append(order_times, clock')
                /\ marks' = Append(marks, clock')
                /\ last_order_ts' = clock'
                /\ next_id' = next_id + 1
           /\ ~OrderAccepted =>
                /\ marks' = marks
                /\ last_order_ts' = last_order_ts
                /\ \E k \in 0..Len(order_times) :
                      order_times' = SubSeq(order_times, k + 1, Len(order_times))
                /\ (pending_orders' # pending_orders => pc = "cancel_call") ]_vars
    /\ [](/\ Len(marks) = next_id - 1
          /\ Cardinality(DOMAIN pending_orders) <= Len(marks))

\* Three orders were accepted, a buy and a sell among them, and the pending
\* set holds three entries.
ThreeAcceptedThreePending ==
    /\ next_id = 4
    /\ Len(marks) = 3
    /\ Cardinality(DOMAIN pending_orders) = 3
    /\ \E a, b \in DOMAIN pending_orders :
          pending_orders[a].side = "buy" /\ pending_orders[b].side = "sell"

\* A rejected order attempt had left the limiter and the pending set as they
\* were when the tick's steps after it ran.
RejectedLeftNoMark ==
    /\ last_event \in {"BUY_FAIL", "SELL_FAIL"}
    /\ marks = <<>>
    /\ pending_orders = <<>>
    /\ pc = "cancel"

\* What C23 says of the pending set: an entry leaves it only in the step in
\* which cancel_order returned true for it, a refusal leaves the set as it
\* was, and an entry that stays keeps its submission time.
DroppedOnlyOnConfirmedCancel ==
    /\ \A id \in DOMAIN pending_orders \ DOMAIN pending_orders' :
          pc = "cancel_call" /\ req.id = id /\ id \notin cancel_refused'
    /\ (pc = "cancel_call" /\ req.id \in cancel_refused' =>
           pending_orders' = pending_orders)
    /\ \A id \in DOMAIN pending_orders \cap DOMAIN pending_orders' :
          pending_orders'[id] = pending_orders[id]

\* The expiry loop is at an order the adapter reports open again after
\* cancel_order returned false for it in an earlier tick.
RefusedOrderReported ==
    /\ pc = "cancel_loop"
    /\ todo # <<>>
    /\ Head(todo) \in cancel_refused \cap DOMAIN pending_orders

\* C23: a pending order is dropped only when cancel_order returns true; after
\* a refusal it keeps its submittedAt and cancellation is requested again on
\* every later tick in which the adapter reports it open.
RefusedCancelAlwaysRetried ==
    [][ /\ DroppedOnlyOnConfirmedCancel
        /\ (RefusedOrderReported =>
               pc' = "cancel_call" /\ req'.id = Head(todo)) ]_vars

\* C23 as the code has it: after a refusal cancellation is requested again on
\* a later tick in which the adapter reports the order open if and only if
\* its age has reached the wait of that tick, which the tick's volume may have
\* raised above the age.
RefusedCancelRetriedWhenDue ==
    [][ /\ DroppedOnlyOnConfirmedCancel
        /\ (RefusedOrderReported =>
               ((pc' = "cancel_call" /\ req'.op = "cancel_order"
                                     /\ req'.id = Head(todo))
                  <=> RLe(ClaimedWait(band, quote.volume_24h),
                          I(clock - pending_orders[Head(todo)].time)))) ]_vars

\* cancel_order is being requested a second time for an order submitted in the
\* first tick, two ticks after it was refused.
CancelRequestedAgain ==
    /\ pc = "cancel_call"
    /\ req.id \in cancel_refused
    /\ pending_orders[req.id].time = ClockStart
    /\ clock = ClockStart + 2 * band.sleep_seconds

\* A refused order 12 seconds old was reported open at volume 4000 (wait 20)
\* and the loop went on without requesting its cancellation.
RefusedNotRetriedAt12 ==
    /\ pc = "cancel_loop"
    /\ todo = <<>>
    /\ req = NoReq
    /\ quote.volume_24h = I(4000)
    /\ \E id \in reported_open \cap cancel_refused \cap DOMAIN pending_orders :
          clock - pending_orders[id].time = 12

\* The last trade record of this tick is an accepted order: an order was
\* accepted earlier in the tick and none was attempted since.
AcceptedEarlierInTick == last_event \in {"BUY", "SELL"}

\* What C24 says of every tick: each position of the snapshot is evaluated,
\* and after an accepted order no order is attempted in the tick while fewer
\* than order_cooldown seconds have passed since it.
SharedLimiterInTick ==
    /\ (pc = "sell_loop" /\ todo # <<>> => todo' = Tail(todo))
    /\ ((/\ pc \in {"buy", "sell_loop"}
         /\ AcceptedEarlierInTick
         /\ clock - last_order_ts < band.order_cooldown) =>
           pc' \notin {"buy_place", "sell_place"})

TwoExitsWithoutCooldown ==
    /\ pc = "cancel"
    /\ band.order_cooldown = 0
    /\ trades = 2
    /\ Len(marks) = 4
    /\ marks[4] - marks[3] <= 2

\* With a cooldown of 2 seconds and a place_order that took 2 seconds the
\* second exit was passed over as well: the limiter is marked when the call
\* returns.
SecondExitBlockedAfterSlowCall ==
    /\ pc = "cancel"
    /\ band.order_cooldown = 2
    /\ last_event = "SELL"
    /\ trades = 1
    /\ Len(positions) = 1
    /\ TakeProfit(price, positions[1], tp_ratio)
    /\ clock = last_order_ts
    /\ clock - marks[2] >= band.sleep_seconds + 2

\* With a cooldown of 6 seconds the tick's buy was accepted and a position due
\* for its stop loss was passed over in the same tick.
BuyBlockedExit ==
    /\ pc = "cancel"
    /\ band.order_cooldown = 6
    /\ last_event = "BUY"
    /\ clock = last_order_ts
    /\ \E i \in DOMAIN positions : StopLoss(price, positions[i], sl_ratio)

\* C25: base_price never increases; it changes only in the quote step of a
\* tick that holds positions, to their average entry price; with no position
\* it stays, so a buy after a full exit is submitted only at
\* price <= base_price * (1 - buy_step) of the anchor kept from before.
BaseNeverIncreases ==
    [][ /\ RLe(base_price', base_price)
        /\ RLt(I(0), base_price')
        /\ (base_price' # base_price =>
               /\ pc = "handle"
               /\ positions # <<>>
               /\ base_price' = ClaimedAvgEntry(positions))
        /\ ((pc = "buy" /\ pc' = "buy_place" /\ positions = <<>>) =>
               RLe(price, RMul(base_price, RSub(I(1), band.buy_step)))) ]_vars

\* The position bought at 98.9 was sold at 102.1; the third tick quotes 99.5,
\* below the exit price, and its buy step has ended without an order because
\* the anchor is still 98.9.
NoBuyAboveOldAnchor ==
    /\ ticks = 3
    /\ pc = "sell"
    /\ req = NoReq
    /\ last_event = ""
    /\ positions = <<>>
    /\ trades = 1
    /\ realized_pnl = RMul(RSub(I(1021), I(989)), RDiv(I(100), I(989)))
    /\ base_price = I(989)
    /\ price = I(995)
    /\ CanPlaceOrder(band, order_times, last_order_ts, clock)

\* The positions the engine can hold under EnvExit.
ExitPositions ==
    {[price |-> I(p), quantity |-> RDiv(RMul(I(100), RPow(I(2), idx)), I(p))] :
        p \in EnvExit.prices, idx \in 0..1}

Held(x) == \E i \in DOMAIN positions : positions[i] = x

\* The exit condition of every held position holds at the tick's price.
EveryExitDue ==
    \A i \in DOMAIN positions :
        TakeProfit(price, positions[i], tp_ratio) \/ StopLoss(price, positions[i], sl_ratio)

\* C26: with the exit condition of a position holding on every tick, sells
\* accepted and the clock advancing, a held position is eventually sold and
\* removed, whatever buys and other exits take the limiter in between.
DueExitEventuallySold ==
    /\ [](pc \in {"sell", "sell_loop"} => EveryExitDue)
    /\ \A x \in ExitPositions :
          (Held(x) /\ ticks <= ExitTicks - ExitWithin) ~> ~Held(x)

\* Two positions were held, the second bought in a tick that left the first
\* one's exit to a later tick, and the first has been sold.
FirstSoldAfterSecondBought ==
    /\ trades = 1
    /\ Len(marks) = 3
    /\ Len(positions) = 1
    /\ positions[1].quantity = RDiv(I(200), positions[1].price)
    /\ last_event = "SELL"

\* C27: trades = wins + losses in every state; an accepted sell adds one to
\* trades and one to wins when the pnl of the rounded sell price is 0 or more,
\* else one to losses; every other step leaves the three counters alone.
CountersFollowSells ==
    /\ [](trades = wins + losses)
    /\ [][ IF SellAccepted
           THEN /\ trades' = trades + 1
                /\ req.price = RoundPrice(price)
                /\ IF RLe(I(0), RMul(RSub(req.price, req.position.price),
                                     req.position.quantity))
                   THEN wins' = wins + 1 /\ losses' = losses
                   ELSE losses' = losses + 1 /\ wins' = wins
           ELSE UNCHANGED <<trades, wins, losses>> ]_vars

\* A sale below the entry price was accepted and counted as a loss.
LossCounted ==
    /\ last_event = "SELL"
    /\ RLt(last_trade_pnl, I(0))
    /\ trades = 1 /\ losses = 1 /\ wins = 0

\* A sale at or above the entry price was accepted and counted as a win.
WinCounted ==
    /\ last_event = "SELL"
    /\ RLe(I(0), last_trade_pnl)
    /\ trades = 1 /\ wins = 1 /\ losses = 0

\* The loop of the expiry step stands at an order that is not in the pending set.
AtUnknownOrder ==
    /\ pc = "cancel_loop"
    /\ todo # <<>>
    /\ Head(todo) \notin DOMAIN pending_orders

\* C28: while the computed wait is positive, the expiry step passes over
\* every reported order that is not in the pending set, and so requests
\* cancellation only of orders that are in it.
UnknownOrderNeverCancelled ==
    [][ RLt(I(0), CancelWait(band, quote.volume_24h)) =>
          /\ AtUnknownOrder => (pc' = "cancel_loop" /\ req' = req)
          /\ (pc = "cancel_loop" /\ pc' = "cancel_call") =>
                req'.id \in DOMAIN pending_orders ]_vars

\* A buy accepted without an id is registered under a generated id; it and
\* the order this engine never placed were reported open when the buy was old
\* enough to expire, and the expiry step has passed over both.
UnknownOrdersPassedOver ==
    /\ pc = "cancel_loop"
    /\ todo = <<>>
    /\ req = NoReq
    /\ reported_open = {<<"ord", 1>>, <<"ext", 0>>}
    /\ DOMAIN pending_orders = {<<"gen", 0>>}
    /\ RLt(I(0), CancelWait(band, quote.volume_24h))
    /\ Expired(clock, pending_orders[<<"gen", 0>>].time, CancelWait(band, quote.volume_24h))

\* With a wait of 0 the order that this engine never placed is cancelled.
UnknownCancelledWithoutWait ==
    /\ pc = "cancel_call"
    /\ req.id = <<"ext", 0>>
    /\ ~RLt(I(0), CancelWait(band, quote.volume_24h))


\* The labels at which an adapter call is in progress: fetch_quote,
\* place_order, list_open_orders and cancel_order.
AdapterCallLabels == {"fetch", "buy_place", "sell_place", "cancel", "cancel_call"}

\* C29: the except branch is entered only from a failing adapter call: a tick
\* whose quote was returned by fetch_quote runs its quote step to the end and
\* goes on to the buy step.
ErrorOnlyOnAdapterFailure ==
    [][ /\ pc' = "error" => pc \in AdapterCallLabels
        /\ pc = "handle" => pc' = "buy" ]_vars


\* C30: with buy_step > 0, a buy for rung 2 or later is submitted only while
\* the quote price is strictly below the quantity-weighted average entry price
\* of the positions held.
AveragingDownBelowAverage ==
    [][ ( /\ pc = "buy"
          /\ pc' = "buy_place"
          /\ positions # <<>>
          /\ RLt(I(0), band.buy_step) )
        => /\ RLt(price, ClaimedAvgEntry(positions))
           /\ RLe(base_price, ClaimedAvgEntry(positions)) ]_vars

\* The second rung was bought at 96.5 while the first position, entered at
\* 98.9, was the whole average.
SecondRungBelowAverage ==
    /\ last_event = "BUY"
    /\ Len(positions) = 2
    /\ positions[1].price = I(989)
    /\ positions[2].price = I(965)
    /\ RLt(I(0), band.buy_step)

====
